---- MODULE Spec2Model ----
(***************************************************************************)
(* Model of src/main.py: the upload persister _save_files and the two      *)
(* form handlers submit_plan and custom_request that call it, running as   *)
(* requests against one shared filesystem tree and one wall clock.         *)
(*                                                                         *)
(* Strings are sequences of one-character strings, so that replace, join   *)
(* and path resolution are computed character by character.  The           *)
(* filesystem is POSIX without symbolic links: a path string resolves to a *)
(* sequence of components, "." and ".." being resolved by the kernel.      *)
(***************************************************************************)
EXTENDS Integers, Sequences, FiniteSets, TLC

(* ------------------------------ bounds -------------------------------- *)

\* Largest number of uploads in one request.
MaxItems == 2
\* Last reading of the wall clock (in microseconds since the model's epoch).
MaxClock == 1
\* Microseconds per day of the model's calendar.
DayLen == 1

Requests == {"r1", "r2"}

(* ------------------------------ strings ------------------------------- *)

\* Python's None where a string is expected: no sequence of characters equals it
None == <<"None">>

\* truth value of an Optional[str]: None and "" are false
Truthy(s) == s # None /\ s # <<>>

Slash == "/"
Backslash == "\\"

RECURSIVE Replace(_, _, _)
\* str.replace(old, new) for a one-character old and new
Replace(s, old, new) ==
    IF s = <<>> THEN <<>>
    ELSE <<IF Head(s) = old THEN new ELSE Head(s)>> \o Replace(Tail(s), old, new)

\* posixpath.join(a, b)
Join(a, b) ==
    IF b # <<>> /\ b[1] = Slash THEN b
    ELSE IF a = <<>> \/ a[Len(a)] = Slash THEN a \o b
    ELSE a \o <<Slash>> \o b

RECURSIVE SplitFrom(_, _)
\* the components of a path string: s.split("/"), cur being the component
\* read so far
SplitFrom(s, cur) ==
    IF s = <<>> THEN <<cur>>
    ELSE IF Head(s) = Slash THEN <<cur>> \o SplitFrom(Tail(s), <<>>)
    ELSE SplitFrom(Tail(s), Append(cur, Head(s)))

Split(s) == SplitFrom(s, <<>>)

Dot == <<".">>
DotDot == <<".", ".">>

RECURSIVE ResolveFrom(_, _)
\* kernel path resolution of the components cs from the directory at
ResolveFrom(cs, at) ==
    IF cs = <<>> THEN at
    ELSE LET c == Head(cs)
         IN  IF c = <<>> \/ c = Dot THEN ResolveFrom(Tail(cs), at)
             ELSE IF c = DotDot
                  THEN ResolveFrom(Tail(cs),
                                   IF at = <<>> THEN at ELSE SubSeq(at, 1, Len(at) - 1))
                  ELSE ResolveFrom(Tail(cs), Append(at, c))

\* the location an absolute path string names
Resolve(p) == ResolveFrom(Split(p), <<>>)

\* the path strings of p's ancestors and of p itself, cut at each separator
Prefixes(p) ==
    {SubSeq(p, 1, n) : n \in {m \in 1..Len(p) : m = Len(p) \/ p[m + 1] = Slash}}

Digit(n) == CASE n = 0 -> "0" [] n = 1 -> "1" [] n = 2 -> "2" [] n = 3 -> "3"
              [] n = 4 -> "4" [] n = 5 -> "5" [] n = 6 -> "6" [] n = 7 -> "7"
              [] n = 8 -> "8" [] n = 9 -> "9"

\* strftime("%Y%m%d"): the fixed-width date field of a clock reading
StrfDate(t) == <<Digit(t \div DayLen)>>

\* strftime("%Y%m%d%H%M%S%f"): date field, then the fixed-width time of day
StrfStamp(t) == StrfDate(t) \o <<Digit(t % DayLen)>>

(* --------------------------- program constants ------------------------ *)

\* os.getcwd()
Cwd == <<"/", "w">>

UPLOAD_DIR == Join(Cwd, <<"u", "p", "l", "o", "a", "d", "s">>)

(* ------------------------------- inputs ------------------------------- *)

\* client-supplied filenames: absent, empty, the placeholder itself, names
\* made of path-like characters, names that are equal once sanitized
Filenames ==
    {None, <<>>, <<"f", "i", "l", "e">>, DotDot, <<Slash>>, <<Backslash>>}

Datas == {<<1>>, <<2>>}

\* UploadFile: .filename and the bytes .file.read() returns
UploadFiles == [filename : Filenames, data : Datas]

\* the uploads used where the shape of the request is what varies
FewUploads ==
    {[filename |-> None, data |-> <<1>>],
     [filename |-> <<"f", "i", "l", "e">>, data |-> <<2>>]}

SeqsUpTo(S, n) == UNION {[1..m -> S] : m \in 0..n}

\* a files_k form field: None, a list, or one UploadFile not in a list
NoSlot == [tag |-> "None", val |-> <<>>]
SlotValues ==
    {NoSlot}
      \cup {[tag |-> "list", val |-> l] : l \in SeqsUpTo(FewUploads, MaxItems)}
      \cup {[tag |-> "single", val |-> <<u>>] : u \in FewUploads}

Plans ==
    {<<"A">>,
     <<"A", Slash, "b">>,
     <<Slash, ".", ".", Slash, ".", ".", Slash, "e">>}

CUSTOM == <<"c", "u", "s", "t", "o", "m">>

NoRequest ==
    [kind |-> "none", plan |-> <<>>, slots |-> <<>>, reference |-> <<>>,
     files |-> <<>>, subdir |-> <<>>]

SlotTotal(slots) ==
    Len(slots[1].val) + Len(slots[2].val) + Len(slots[3].val) + Len(slots[4].val)

SubmitPlanRequest(p, sl) ==
    [kind |-> "submit_plan", plan |-> p, slots |-> sl, reference |-> <<>>,
     files |-> <<>>, subdir |-> <<>>]

\* POST /api/submit-plan with its plan field and its four file groups: every
\* filling of the groups under one plan, and every plan with one file
SubmitPlanRequests ==
    {SubmitPlanRequest(<<"A">>, sl) :
        sl \in {x \in [1..4 -> SlotValues] : SlotTotal(x) <= MaxItems}}
      \cup {SubmitPlanRequest(p, <<[tag |-> "list", val |-> <<u>>], NoSlot, NoSlot, NoSlot>>) :
              p \in Plans, u \in FewUploads}

\* POST /api/custom-request: reference is <<>> for None, <<u>> for a file
CustomRequests ==
    {[kind |-> "custom_request", plan |-> <<>>, slots |-> <<>>, reference |-> ref,
      files |-> <<>>, subdir |-> <<>>] :
        ref \in {<<>>} \cup {<<u>> : u \in UploadFiles}}

\* the uploads of a batch given to _save_files directly: names that are
\* equal by default ("file") or once sanitized ("_"), with different bytes
BatchUploads ==
    FewUploads
      \cup {[filename |-> <<Slash>>, data |-> <<1>>],
            [filename |-> <<Backslash>>, data |-> <<2>>]}

\* a direct call _save_files(files, subdir)
DirectCalls ==
    {[kind |-> "_save_files", plan |-> <<>>, slots |-> <<>>, reference |-> <<>>,
      files |-> fs, subdir |-> CUSTOM] :
        fs \in SeqsUpTo(BatchUploads, MaxItems)}

AllRequests == SubmitPlanRequests \cup CustomRequests \cup DirectCalls

\* the requests that run side by side: at most one upload each, sharing
\* subdirectories and filenames
SharedUploads ==
    FewUploads \cup {[filename |-> <<>>, data |-> <<2>>]}

ConcurrentRequests ==
    {r \in CustomRequests :
        \A n \in 1..Len(r.reference) : r.reference[n] \in SharedUploads}
      \cup {r \in DirectCalls :
              Len(r.files) <= 1 /\ \A n \in 1..Len(r.files) : r.files[n] \in FewUploads}
      \cup {r \in SubmitPlanRequests :
              /\ r.plan = <<"A">>
              /\ \A n \in 2..4 : r.slots[n] = NoSlot
              /\ r.slots[1].tag # "single" /\ Len(r.slots[1].val) <= 1}

\* one request alone, of any shape, or two requests side by side
Workloads ==
    {[r \in Requests |-> IF r = "r1" THEN q ELSE NoRequest] : q \in AllRequests}
      \cup [Requests -> ConcurrentRequests]

(* -------------------------------- state ------------------------------- *)

VARIABLES
    now,          \* the wall clock datetime.utcnow() reads
    dirs,         \* the directories of the filesystem (resolved locations)
    files,        \* the regular files: location -> contents
    inbox,        \* the request each worker is given
    pc,           \* where each request is in its handler
    frame,        \* the locals of each request's _save_files call (and two
                  \* history fields: called, existed)
    opened,       \* history: the opens each request has made
    written,      \* history: the uploads each request has written, in order
    ret,          \* the outcome of each request's _save_files call
    response      \* the HTTP response of each request

vars == <<now, dirs, files, inbox, pc, frame, opened, written, ret, response>>

NoFrame ==
    [called |-> FALSE, files |-> <<>>, subdir |-> <<>>, dest_dir |-> <<>>,
     existed |-> FALSE, n |-> 0, ts |-> <<>>, out_path |-> <<>>,
     saved_paths |-> <<>>]

NoReturn == [tag |-> "none", paths |-> <<>>, type |-> "", text |-> ""]
Returned(paths) == [tag |-> "return", paths |-> paths, type |-> "", text |-> ""]
\* an exception of class type whose str() is text
Raised(type, text) == [tag |-> "raise", paths |-> <<>>, type |-> type, text |-> text]

NoResponse == [status |-> 0, message |-> "", detail |-> "", saved_count |-> -1]

\* raise HTTPException(status_code, detail)
HTTPException(status, detail) ==
    [status |-> status, message |-> "", detail |-> detail, saved_count |-> -1]

\* JSONResponse({"ok": True, "message": message, "data": {..., "saved_count": n}})
JSONResponse(message, n) ==
    [status |-> 200, message |-> message, detail |-> "", saved_count |-> n]

\* line 78 has run: the working directory and the upload root exist
Init ==
    /\ now = 0
    /\ dirs = {Resolve(p) : p \in Prefixes(UPLOAD_DIR)}
    /\ files = [l \in {} |-> <<>>]
    /\ inbox \in Workloads
    /\ pc = [r \in Requests |-> IF inbox[r] = NoRequest THEN "idle" ELSE "recv"]
    /\ frame = [r \in Requests |-> NoFrame]
    /\ opened = [r \in Requests |-> <<>>]
    /\ written = [r \in Requests |-> <<>>]
    /\ ret = [r \in Requests |-> NoReturn]
    /\ response = [r \in Requests |-> NoResponse]

(* ------------------------------ submit_plan --------------------------- *)

\* "if batch:": None and [] are false, an UploadFile is true
SlotTruthy(batch) == batch.tag = "single" \/ (batch.tag = "list" /\ batch.val # <<>>)

\* "batch if isinstance(batch, list) else [batch]"
Normalize(batch) == IF batch.tag = "list" THEN batch.val ELSE <<batch.val[1]>>

RECURSIVE BatchesFrom(_, _)
\* the loop over [files_0, files_1, files_2, files_3] from slot k on
BatchesFrom(slots, k) ==
    IF k > Len(slots) THEN <<>>
    ELSE (IF SlotTruthy(slots[k]) THEN <<Normalize(slots[k])>> ELSE <<>>)
           \o BatchesFrom(slots, k + 1)

Batches(slots) == BatchesFrom(slots, 1)

RECURSIVE Flatten_Reversed(_)
\* mutant of Flatten: the groups are concatenated last group first
Flatten_Reversed(batches) ==
    IF batches = <<>> THEN <<>> ELSE Flatten_Reversed(Tail(batches)) \o Head(batches)

RECURSIVE Flatten(_)
\* [uf for group in batches for uf in (group or [])]
Flatten(batches) ==
    IF batches = <<>> THEN <<>> ELSE Head(batches) \o Flatten(Tail(batches))

\* f"plan_{plan}_{datetime.utcnow().strftime('%Y%m%d')}"
PlanSubdir(plan, t) == <<"p", "l", "a", "n", "_">> \o plan \o <<"_">> \o StrfDate(t)

\* mutant of SubmitPlanExcept: no "except HTTPException: raise" clause
SubmitPlanExcept_Generic(e) == HTTPException(500, e.text)

\* the except clauses of submit_plan: an HTTPException is re-raised, anything
\* else becomes HTTP 500 carrying str(e)
SubmitPlanExcept(e) ==
    IF e.type = "HTTPException" THEN HTTPException(e.status, e.text)
    ELSE HTTPException(500, e.text)

\* the except clause of custom_request
CustomRequestExcept(e) == HTTPException(500, e.text)

\* what the caller of _save_files does with its outcome
Response(req, outcome) ==
    CASE req.kind = "submit_plan" ->
           IF outcome.tag = "return" THEN JSONResponse("Recebido", Len(outcome.paths))
           ELSE SubmitPlanExcept([type |-> outcome.type, status |-> 0, text |-> outcome.text])
      [] req.kind = "custom_request" ->
           IF outcome.tag = "return"
           THEN JSONResponse("Pedido recebido", Len(outcome.paths))
           ELSE CustomRequestExcept([type |-> outcome.type, status |-> 0, text |-> outcome.text])
      [] OTHER -> NoResponse

(* ------------------------------ _save_files --------------------------- *)

\* f.filename or "file"
FilenameOf(f) == IF Truthy(f.filename) THEN f.filename ELSE <<"f", "i", "l", "e">>

\* mutant of SafeName: only the forward slash is replaced
SafeName_SlashOnly(filename) == Replace(filename, Slash, "_")

\* filename.replace("/", "_").replace("\\", "_")
SafeName(filename) == Replace(Replace(filename, Slash, "_"), Backslash, "_")

\* os.path.join(dest_dir, f"{ts}_{safe_name}")
OutPath(dest_dir, ts, safe_name) == Join(dest_dir, ts \o <<"_">> \o safe_name)

Parent(loc) == SubSeq(loc, 1, Len(loc) - 1)

\* the call ends: _save_files returns or raises, and its caller answers
Finish(r, outcome) ==
    /\ ret' = [ret EXCEPT ![r] = outcome]
    /\ response' = [response EXCEPT ![r] = Response(inbox[r], outcome)]
    /\ pc' = [pc EXCEPT ![r] = "done"]

\* mutant of Call: no "if not files: return saved_paths"
Call_NoEarlyReturn(r, fs, subdir) ==
    /\ frame' = [frame EXCEPT ![r] =
                   [NoFrame EXCEPT !.called = TRUE, !.files = fs, !.subdir = subdir,
                                   !.dest_dir = Join(UPLOAD_DIR, subdir), !.n = 1]]
    /\ pc' = [pc EXCEPT ![r] = "makedirs"]
    /\ UNCHANGED <<ret, response>>

\* entry of _save_files(fs, subdir): the early return, then dest_dir
Call(r, fs, subdir) ==
    IF fs = <<>>
    THEN /\ frame' = [frame EXCEPT ![r] =
                        [NoFrame EXCEPT !.called = TRUE, !.subdir = subdir]]
         /\ Finish(r, Returned(<<>>))
    ELSE /\ frame' = [frame EXCEPT ![r] =
                        [NoFrame EXCEPT !.called = TRUE, !.files = fs,
                                        !.subdir = subdir,
                                        !.dest_dir = Join(UPLOAD_DIR, subdir),
                                        !.n = 1]]
         /\ pc' = [pc EXCEPT ![r] = "makedirs"]
         /\ UNCHANGED <<ret, response>>

(* ------------------------------- actions ------------------------------ *)

\* POST /api/submit-plan up to the call of _save_files
SubmitPlan(r) ==
    /\ pc[r] = "recv"
    /\ inbox[r].kind = "submit_plan"
    /\ LET all_uploads == Flatten(Batches(inbox[r].slots))
       IN  IF all_uploads = <<>>
           THEN /\ response' = [response EXCEPT ![r] =
                      SubmitPlanExcept([type |-> "HTTPException", status |-> 422,
                                        text |-> "Nenhum ficheiro enviado"])]
                /\ pc' = [pc EXCEPT ![r] = "done"]
                /\ UNCHANGED <<frame, ret>>
           ELSE Call(r, all_uploads, PlanSubdir(inbox[r].plan, now))
    /\ UNCHANGED <<now, dirs, files, inbox, opened, written>>

\* POST /api/custom-request up to the call of _save_files
CustomRequest(r) ==
    /\ pc[r] = "recv"
    /\ inbox[r].kind = "custom_request"
    /\ IF inbox[r].reference # <<>>
       THEN Call(r, <<inbox[r].reference[1]>>, CUSTOM)
       ELSE /\ response' = [response EXCEPT ![r] = JSONResponse("Pedido recebido", 0)]
            /\ pc' = [pc EXCEPT ![r] = "done"]
            /\ UNCHANGED <<frame, ret>>
    /\ UNCHANGED <<now, dirs, files, inbox, opened, written>>

\* _save_files called by something other than the two handlers
DirectCall(r) ==
    /\ pc[r] = "recv"
    /\ inbox[r].kind = "_save_files"
    /\ Call(r, inbox[r].files, inbox[r].subdir)
    /\ UNCHANGED <<now, dirs, files, inbox, opened, written>>

\* mutant of MakeDirs: os.makedirs(dest_dir) without exist_ok=True
MakeDirs_NotExistOk(r) ==
    /\ pc[r] = "makedirs"
    /\ LET locs == {Resolve(p) : p \in Prefixes(frame[r].dest_dir)}
       IN  IF locs \cap DOMAIN files # {} \/ Resolve(frame[r].dest_dir) \in dirs
           THEN /\ Finish(r, Raised("FileExistsError", "[Errno 17] File exists"))
                /\ UNCHANGED dirs
           ELSE /\ dirs' = dirs \cup locs
                /\ pc' = [pc EXCEPT ![r] = "open"]
                /\ UNCHANGED <<ret, response>>
    /\ frame' = [frame EXCEPT ![r].existed = Resolve(frame[r].dest_dir) \in dirs]
    /\ UNCHANGED <<now, files, inbox, opened, written>>

\* os.makedirs(dest_dir, exist_ok=True): every missing ancestor is created;
\* it raises when a component of the path is a regular file
MakeDirs(r) ==
    /\ pc[r] = "makedirs"
    /\ LET locs == {Resolve(p) : p \in Prefixes(frame[r].dest_dir)}
       IN  IF locs \cap DOMAIN files # {}
           THEN /\ Finish(r, Raised("FileExistsError", "[Errno 17] File exists"))
                /\ UNCHANGED dirs
           ELSE /\ dirs' = dirs \cup locs
                /\ pc' = [pc EXCEPT ![r] = "open"]
                /\ UNCHANGED <<ret, response>>
    /\ frame' = [frame EXCEPT ![r].existed = Resolve(frame[r].dest_dir) \in dirs]
    /\ UNCHANGED <<now, files, inbox, opened, written>>

\* os.makedirs fails in mkdir (permissions, full disk) after creating some of
\* the ancestors; with the directory present mkdir's error is swallowed
MakeDirsFail(r) ==
    /\ pc[r] = "makedirs"
    /\ Resolve(frame[r].dest_dir) \notin dirs
    /\ \E m \in 0..(Len(frame[r].dest_dir) - 1) :
          dirs' = dirs \cup {Resolve(p) :
                               p \in {q \in Prefixes(frame[r].dest_dir) : Len(q) <= m}}
    /\ Finish(r, Raised("PermissionError", "[Errno 13] Permission denied"))
    /\ UNCHANGED <<now, files, inbox, frame, opened, written>>

\* lines 88-92: the name of item n is built from a fresh clock reading and
\* open(out_path, "wb") creates the file or truncates the one that is there
Open(r) ==
    /\ pc[r] = "open"
    /\ frame[r].n <= Len(frame[r].files)
    /\ LET f == frame[r].files[frame[r].n]
           ts == StrfStamp(now)
           out_path == OutPath(frame[r].dest_dir, ts, SafeName(FilenameOf(f)))
           loc == Resolve(out_path)
       IN  /\ frame' = [frame EXCEPT ![r].ts = ts, ![r].out_path = out_path]
           /\ IF loc \in dirs
              THEN /\ Finish(r, Raised("IsADirectoryError", "[Errno 21] Is a directory"))
                   /\ UNCHANGED <<files, opened>>
              ELSE IF loc = <<>> \/ Parent(loc) \notin dirs
              THEN /\ Finish(r, Raised("FileNotFoundError",
                                       "[Errno 2] No such file or directory"))
                   /\ UNCHANGED <<files, opened>>
              ELSE /\ files' = [l \in DOMAIN files \cup {loc} |-> IF l = loc THEN <<>> ELSE files[l]]
                   /\ opened' = [opened EXCEPT ![r] =
                                   Append(@, [path |-> out_path, ts |-> ts, n |-> frame[r].n])]
                   /\ pc' = [pc EXCEPT ![r] = "write"]
                   /\ UNCHANGED <<ret, response>>
    /\ UNCHANGED <<now, dirs, inbox, written>>

\* open fails for a reason of the environment; no file is created
OpenFail(r) ==
    /\ pc[r] = "open"
    /\ Finish(r, Raised("PermissionError", "[Errno 13] Permission denied"))
    /\ UNCHANGED <<now, dirs, files, inbox, frame, opened, written>>

\* lines 93-95: out.write(f.file.read()), saved_paths.append(out_path), then
\* the next item, or the return and the caller's answer
Write(r) ==
    /\ pc[r] = "write"
    /\ LET f == frame[r].files[frame[r].n]
           loc == Resolve(frame[r].out_path)
           saved == Append(frame[r].saved_paths, frame[r].out_path)
       IN  /\ files' = [files EXCEPT ![loc] = f.data]
           /\ written' = [written EXCEPT ![r] = Append(@, f)]
           /\ frame' = [frame EXCEPT ![r].saved_paths = saved, ![r].n = @ + 1]
           /\ IF frame[r].n = Len(frame[r].files)
              THEN Finish(r, Returned(saved))
              ELSE /\ pc' = [pc EXCEPT ![r] = "open"]
                   /\ UNCHANGED <<ret, response>>
    /\ UNCHANGED <<now, dirs, inbox, opened>>

\* the write fails (full disk): the file keeps a proper prefix of the bytes
WriteFail(r) ==
    /\ pc[r] = "write"
    /\ LET f == frame[r].files[frame[r].n]
           loc == Resolve(frame[r].out_path)
       IN  \E m \in 0..(Len(f.data) - 1) :
              files' = [files EXCEPT ![loc] = SubSeq(f.data, 1, m)]
    /\ Finish(r, Raised("OSError", "[Errno 28] No space left on device"))
    /\ UNCHANGED <<now, dirs, inbox, frame, opened, written>>

\* the wall clock advances.  datetime.utcnow() reads the system clock, which
\* need not advance between two reads (clock granularity, a request served
\* by another worker in the same microsecond): two reads with no Tick in
\* between return the same reading
Tick ==
    /\ now < MaxClock
    /\ now' = now + 1
    /\ UNCHANGED <<dirs, files, inbox, pc, frame, opened, written, ret, response>>

Next ==
    \/ Tick
    \/ \E r \in Requests :
          \/ SubmitPlan(r)
          \/ CustomRequest(r)
          \/ DirectCall(r)
          \/ MakeDirs(r)
          \/ MakeDirsFail(r)
          \/ Open(r)
          \/ OpenFail(r)
          \/ Write(r)
          \/ WriteFail(r)

Spec == Init /\ [][Next]_vars

(* ------------------------------- claims ------------------------------- *)

UploadRoot == Resolve(UPLOAD_DIR)

\* the location of the file request r opened for its item number n
LocOf(r, n) == Resolve(opened[r][n].path)

\* C1: a call of _save_files that returns gives back one path per input item,
\* in input order, and every returned path names an existing file whose
\* contents are the bytes of the corresponding item.
C1_RoundTrip ==
    \A r \in Requests :
        ret[r].tag = "return" =>
            /\ Len(ret[r].paths) = Len(frame[r].files)
            /\ \A n \in 1..Len(ret[r].paths) :
                  /\ Resolve(ret[r].paths[n]) \in DOMAIN files
                  /\ files[Resolve(ret[r].paths[n])] = frame[r].files[n].data

\* C2: within one _save_files call the output paths of two different items
\* are distinct, whatever the filenames and the clock readings.
C2_DistinctPathsInBatch ==
    \A r \in Requests :
        \A m, n \in 1..Len(opened[r]) :
            m # n => opened[r][m].path # opened[r][n].path

\* C3: requests running side by side do not contend on the filesystem:
\* directory creation never fails on a directory that is already there, and no
\* file opened by one request is opened (created, truncated, overwritten) by
\* another request.
C3_NoContention ==
    \A r, q \in Requests :
        /\ ret[r].type # "FileExistsError"
        /\ r # q =>
              \A m \in 1..Len(opened[r]) :
                  \A n \in 1..Len(opened[q]) : LocOf(r, m) # LocOf(q, n)

\* the filename _save_files uses for an upload: the client's, or "file"
NameUsed(f) ==
    IF f.filename = None \/ f.filename = <<>> THEN <<"f", "i", "l", "e">>
    ELSE f.filename

\* C4: every file _save_files creates is a direct child of UPLOAD_DIR/subdir:
\* its last path component is timestamp + "_" + the filename with every "/"
\* and "\" replaced by "_", it holds no path separator, and the path has no
\* directory level beyond root/subdir/.
C4_FilenameContained ==
    \A r \in Requests :
        \A m \in 1..Len(opened[r]) :
            LET e == opened[r][m]
                fn == NameUsed(frame[r].files[e.n])
                comps == Split(e.path)
                last == comps[Len(comps)]
                k0 == Len(e.ts) + 1
            IN  /\ e.ts \in {StrfStamp(t) : t \in 0..MaxClock}
                /\ Len(last) = k0 + Len(fn)
                /\ SubSeq(last, 1, Len(e.ts)) = e.ts
                /\ last[k0] = "_"
                /\ \A k \in 1..Len(fn) :
                      last[k0 + k] = IF fn[k] \in {Slash, Backslash} THEN "_" ELSE fn[k]
                /\ \A k \in 1..Len(last) : last[k] \notin {Slash, Backslash}
                /\ comps = Append(Split(Join(UPLOAD_DIR, frame[r].subdir)), last)
                /\ LocOf(r, m) = Append(Resolve(Join(UPLOAD_DIR, frame[r].subdir)), last)
                /\ LocOf(r, m) \in DOMAIN files

\* a file was created from a filename made of a path separator
C4_Witness ==
    \E r \in Requests :
        \E m \in 1..Len(opened[r]) :
            /\ frame[r].files[opened[r][m].n].filename \in {<<Slash>>, <<Backslash>>}
            /\ LocOf(r, m) \in DOMAIN files

\* C5: when writing item k of a batch fails, the files of the items before k
\* stay on disk with their full contents, no file is created for an item
\* after k, _save_files returns no paths, and the handler answers HTTP 500
\* carrying the exception text, not a success payload.
C5_FailureMidBatch ==
    \A r \in Requests :
        (ret[r].tag = "raise" /\ frame[r].n >= 1) =>
            LET k == frame[r].n
            IN  /\ \A j \in 1..(k - 1) :
                      /\ LocOf(r, j) \in DOMAIN files
                      /\ files[LocOf(r, j)] = frame[r].files[j].data
                /\ Len(opened[r]) <= k
                /\ ret[r].paths = <<>>
                /\ inbox[r].kind \in {"submit_plan", "custom_request"} =>
                      /\ response[r].status = 500
                      /\ response[r].detail = ret[r].text
                      /\ response[r].saved_count = -1

\* C6: POST /api/submit-plan with all four file groups absent or empty
\* answers HTTP 422 "Nenhum ficheiro enviado", never HTTP 500; _save_files is
\* not called and no directory or file is created.
C6_NoFiles422 ==
    [][\A r \in Requests :
          (/\ inbox[r].kind = "submit_plan"
           /\ \A k \in 1..4 : inbox[r].slots[k].val = <<>>)
          =>
          /\ pc[r] = "done" => pc'[r] = "done" /\ response'[r] = response[r]
          /\ pc[r] # pc'[r] =>
                /\ pc'[r] = "done"
                /\ response'[r].status = 422
                /\ response'[r].detail = "Nenhum ficheiro enviado"
                /\ ~frame'[r].called
                /\ ret'[r] = NoReturn
                /\ dirs' = dirs
                /\ files' = files]_vars

\* a submit-plan with an absent group and an empty group was answered 422
C6_Witness ==
    \E r \in Requests :
        /\ inbox[r].kind = "submit_plan"
        /\ \A k \in 1..4 : inbox[r].slots[k].val = <<>>
        /\ \E k \in 1..4 : inbox[r].slots[k].tag = "list"
        /\ \E k \in 1..4 : inbox[r].slots[k].tag = "None"
        /\ pc[r] = "done"
        /\ response[r].status = 422

\* C7: _save_files called with an empty sequence returns an empty sequence
\* and leaves the filesystem (directories and files) unchanged.
C7_EmptyBatch ==
    [][\A r \in Requests :
          (/\ inbox[r].kind = "_save_files"
           /\ inbox[r].files = <<>>
           /\ pc[r] = "recv"
           /\ pc'[r] # pc[r])
          =>
          /\ pc'[r] = "done"
          /\ ret'[r].tag = "return"
          /\ ret'[r].paths = <<>>
          /\ dirs' = dirs
          /\ files' = files]_vars

\* a call with no items has returned, its subdirectory not created
C7_Witness ==
    \E r \in Requests :
        /\ inbox[r].kind = "_save_files"
        /\ inbox[r].files = <<>>
        /\ frame[r].called
        /\ ret[r] = Returned(<<>>)
        /\ Resolve(Join(UPLOAD_DIR, inbox[r].subdir)) \notin dirs

\* C8: the upload root and the destination subdirectory exist before a file
\* of a batch is opened for writing, and creating the subdirectory is
\* idempotent: when it is already there the creation step does not fail and
\* alters neither the directories nor the files.
C8_DirectoryBeforeWrite ==
    [][\A r \in Requests :
          /\ opened'[r] # opened[r] =>
                /\ UploadRoot \in dirs
                /\ Resolve(frame[r].dest_dir) \in dirs
          /\ (/\ pc[r] = "makedirs"
              /\ pc'[r] # pc[r]
              /\ Resolve(frame[r].dest_dir) \in dirs)
             =>
             /\ pc'[r] = "open"
             /\ dirs' = dirs
             /\ files' = files]_vars

\* a request found its subdirectory present, with another request's file in
\* it, and went on to open its own file
C8_Witness ==
    \E r, q \in Requests :
        /\ r # q
        /\ frame[r].existed
        /\ pc[r] = "write"
        /\ \E n \in 1..Len(opened[q]) :
              /\ LocOf(q, n) \in DOMAIN files
              /\ Parent(LocOf(q, n)) = Resolve(frame[r].dest_dir)
              /\ LocOf(q, n) # LocOf(r, 1)

\* the uploads of a file group, in the order received
SlotItems(batch) == batch.val

\* files_0, files_1, files_2, files_3 one after the other
SlotOrder(slots) ==
    SlotItems(slots[1]) \o SlotItems(slots[2]) \o SlotItems(slots[3])
      \o SlotItems(slots[4])

\* C9: submit-plan persists the uploads in slot order files_0..files_3 and,
\* inside a slot, in the order received; absent and empty slots contribute
\* nothing; files are written in that order, and on success saved_count is
\* the total number of uploads.
C9_SlotOrder ==
    \A r \in Requests :
        inbox[r].kind = "submit_plan" =>
            LET want == SlotOrder(inbox[r].slots)
            IN  /\ frame[r].called => frame[r].files = want
                /\ Len(written[r]) <= Len(want)
                /\ written[r] = SubSeq(want, 1, Len(written[r]))
                /\ \A n \in 1..Len(opened[r]) : opened[r][n].n = n
                /\ response[r].status = 200 =>
                      /\ written[r] = want
                      /\ response[r].saved_count = SlotTotal(inbox[r].slots)

\* a submit-plan with different uploads in two groups succeeded
C9_Witness ==
    \E r \in Requests :
        /\ inbox[r].kind = "submit_plan"
        /\ \E j, k \in 1..4 :
              /\ j < k
              /\ inbox[r].slots[j].val # <<>>
              /\ inbox[r].slots[k].val # <<>>
              /\ inbox[r].slots[j].val # inbox[r].slots[k].val
        /\ response[r].status = 200
        /\ response[r].saved_count = 2

\* C10: every file stored by submit-plan lies at <upload root>/<subdir>/<file>
\* with <subdir> = "plan_" + plan + "_" + date one directory level directly
\* under the upload root, whatever the plan field holds.
C10_UnderUploadRoot ==
    \A r \in Requests :
        inbox[r].kind = "submit_plan" =>
            \A m \in 1..Len(opened[r]) :
                LET loc == LocOf(r, m)
                IN  /\ Len(loc) = Len(UploadRoot) + 2
                    /\ SubSeq(loc, 1, Len(UploadRoot)) = UploadRoot
                    /\ loc[Len(UploadRoot) + 1] = frame[r].subdir

====
